---- MODULE Spec2Model ----
(***************************************************************************)
(* Model of streamlit_portal_app.py: the statistics functions              *)
(* calc_probabilities and expected_value, the main page's pool / bet       *)
(* widgets that feed expected_value, and the admin page's load / append /  *)
(* save cycle on data/history.csv.                                         *)
(*                                                                         *)
(* Numbers.  Python ints are TLA+ integers.  A Python float (and a pandas  *)
(* float64 cell) is modelled as an exact fraction <<n, d>> in lowest terms *)
(* with d > 0; NaN (pandas 0/0) is the pair <<0, 0>>.                      *)
(***************************************************************************)
EXTENDS Integers, Sequences, FiniteSets

\* ---------------------------------------------------------------- bounds
MaxPool    == 1   \* pool sizes tried by the pure-function runs: 0..MaxPool, 100, 200
MaxBet     == 2   \* bet amounts tried by the pure-function runs: 0..MaxBet, 10
ProbDen    == 2   \* probabilities tried: k / ProbDen for k in 0..ProbDen
MaxRecords == 3   \* longest history handed to calc_probabilities on its own
MaxHistory == 1   \* longest history.csv a main-page session starts from
MaxInput   == 1   \* numbers typed into the page's widgets: -MaxInput..MaxInput
MaxAdds    == 3   \* records added by the admin sessions in one behaviour
MaxTime    == 1   \* date-times an admin can pick: 1..MaxTime

\* ------------------------------------------------------------- constants
\* CATEGORIES = ["勝ち", "負け", "ゴール負け"]
CATEGORIES == <<"kachi", "make", "goal_make">>

Cats == {CATEGORIES[i] : i \in 1..Len(CATEGORIES)}

\* A value of the free-text column 結果 that is not one of CATEGORIES (the
\* history editor's column is plain text, and an added row may leave it blank).
OtherResult == "sonota"

Results == Cats \cup {OtherResult}

\* The browser sessions that have the admin page open.
Sessions == {"s1", "s2"}

\* ------------------------------------------------------------ arithmetic
NaN == <<0, 0>>

IsNaN(x) == x[2] = 0

Abs(n) == IF n < 0 THEN -n ELSE n

RECURSIVE GCD(_, _)
GCD(a, b) == IF b = 0 THEN a ELSE GCD(b, a % b)

\* The fraction n / d in lowest terms with a positive denominator.
Frac(n, d) ==
    IF d = 0 THEN NaN
    ELSE LET g == GCD(Abs(n), Abs(d))
             s == IF d < 0 THEN -1 ELSE 1
         IN  <<(s * n) \div g, (s * d) \div g>>

FromInt(n) == <<n, 1>>

\* float * float, float - float, float + float: NaN is absorbing.
Mul(x, y) == IF IsNaN(x) \/ IsNaN(y) THEN NaN ELSE Frac(x[1] * y[1], x[2] * y[2])

Sub(x, y) ==
    IF IsNaN(x) \/ IsNaN(y) THEN NaN ELSE Frac(x[1] * y[2] - y[1] * x[2], x[2] * y[2])

Add(x, y) ==
    IF IsNaN(x) \/ IsNaN(y) THEN NaN ELSE Frac(x[1] * y[2] + y[1] * x[2], x[2] * y[2])

\* x <= y; every comparison with NaN is false.
Leq(x, y) == ~IsNaN(x) /\ ~IsNaN(y) /\ x[1] * y[2] <= y[1] * x[2]

AbsF(x) == <<Abs(x[1]), x[2]>>

\* sum() of a dict's integer values, in the order of CATEGORIES.
RECURSIVE SumInts(_, _)
SumInts(f, i) == IF i = 0 THEN 0 ELSE SumInts(f, i - 1) + f[CATEGORIES[i]]

\* The sum of a mapping's float values, in the order of CATEGORIES.
RECURSIVE SumFracs(_, _)
SumFracs(f, i) == IF i = 0 THEN FromInt(0) ELSE Add(SumFracs(f, i - 1), f[CATEGORIES[i]])

\* ------------------------------------------------------- history frames
\* One row of history.csv: 開催日時 (a date-time, here a number) and 結果.
Row(t, r) == [kaisai |-> t, kekka |-> r]

RECURSIVE CountResult(_, _)
CountResult(df, r) ==
    IF df = <<>> THEN 0
    ELSE (IF Head(df).kekka = r THEN 1 ELSE 0) + CountResult(Tail(df), r)

\* df["結果"].value_counts().reindex(CATEGORIES, fill_value=0): the count of every
\* configured category; the counts of all other values are dropped.
value_counts(df) == [c \in Cats |-> CountResult(df, c)]

\* df.empty guard dropped: the uniform fallback is never taken.
calc_probabilities_NoGuard(df) ==
    LET counts == value_counts(df)
        total  == SumInts(counts, Len(CATEGORIES))
    IN  [c \in Cats |-> Frac(counts[c], total)]

\* calc_probabilities: uniform on an empty frame, else counts / counts.sum()
\* (pandas: an integer 0 / 0 is NaN, not an exception).
calc_probabilities(df) ==
    IF df = <<>>
    THEN [c \in Cats |-> Frac(1, Len(CATEGORIES))]
    ELSE LET counts == value_counts(df)
             total  == SumInts(counts, Len(CATEGORIES))
         IN  [c \in Cats |-> Frac(counts[c], total)]

\* ------------------------------------------------------- expected_value
\* base = sum(pool.values())
Base(pool) == SumInts(pool, Len(CATEGORIES))

\* total = base (the bet is not added to the total pool).
Total_NoBet(bet, pool) == Base(pool)

\* total = base + bet_amount
Total(bet, pool) == Base(pool) + bet

\* win_pool = pool[c] - bet_amount (sign slip).
WinPool_Minus(c, bet, pool) == pool[c] - bet

\* win_pool = pool[c] + bet_amount
WinPool(c, bet, pool) == pool[c] + bet

\* ratio = total / win_pool if win_pool else 0
Ratio(c, bet, pool) ==
    IF WinPool(c, bet, pool) # 0
    THEN Frac(Total(bet, pool), WinPool(c, bet, pool))
    ELSE FromInt(0)

\* payout[c] = ratio (the multiplication by the bet is forgotten).
Payout_Ratio(c, bet, pool) ==
    IF WinPool(c, bet, pool) # 0 THEN Ratio(c, bet, pool) ELSE FromInt(0)

\* payout[c] = ratio * bet_amount if win_pool else 0
Payout(c, bet, pool) ==
    IF WinPool(c, bet, pool) # 0
    THEN Mul(Ratio(c, bet, pool), FromInt(bet))
    ELSE FromInt(0)

\* ev[c] = probs[c] * payout[c] (the stake is not netted out).
Ev_Gross(c, bet, pool, probs) == Mul(probs[c], Payout(c, bet, pool))

\* ev[c] = probs[c] * ratio - bet_amount (the ratio taken for the payout).
Ev_Ratio(c, bet, pool, probs) == Sub(Mul(probs[c], Ratio(c, bet, pool)), FromInt(bet))

\* ev[c] = probs[c] * payout[c] - bet_amount
Ev(c, bet, pool, probs) == Sub(Mul(probs[c], Payout(c, bet, pool)), FromInt(bet))

\* expected_value: one entry per category of CATEGORIES, in ev and in payout.
expected_value(bet, pool, probs) ==
    [ev     |-> [c \in Cats |-> Ev(c, bet, pool, probs)],
     payout |-> [c \in Cats |-> Payout(c, bet, pool)]]

\* ---------------------------------------------------------------- state
VARIABLES
    bet_amount,  \* the int handed to expected_value (the "Bet 金額" widget)
    pool,        \* the dict handed to expected_value (the three pool widgets)
    probs,       \* the probability mapping handed to expected_value
    sel_cat,     \* the category picked in the radio button
    ev,          \* expected_value's first result
    payout,      \* expected_value's second result
    evaluated,   \* whether expected_value has been called
    estimated,   \* whether probs is a result of calc_probabilities
    history_df,  \* the frame a main-page run loaded from history.csv
    typed,       \* the number the visitor typed last into a number widget
    file,        \* the rows of data/history.csv
    pc,          \* per admin session: "idle", or "loaded" (a run is past line 131)
    admin_df,    \* per admin session: history_df of its running script
    base,        \* the rows history.csv held at the start
    added,       \* the rows the 追加 handler has saved, in the order of the saves
    stale        \* whether a run saved a frame loaded before another run's save

evVars   == <<bet_amount, pool, probs, sel_cat, ev, payout, evaluated>>
pageVars == <<history_df, typed, estimated>>
fileVars == <<file, pc, admin_df, base, added, stale>>
vars     == <<evVars, pageVars, fileVars>>

ZeroMap == [c \in Cats |-> FromInt(0)]

\* The admin page is not open: the file is the one _ensure_csv created.
NoAdmin ==
    /\ file = <<>>
    /\ pc = [s \in Sessions |-> "idle"]
    /\ admin_df = [s \in Sessions |-> <<>>]
    /\ base = <<>>
    /\ added = <<>>
    /\ stale = FALSE

\* ------------------------------------------- expected_value on its own
PoolValues == (0..MaxPool) \cup {100, 200}

BetValues == (0..MaxBet) \cup {10}

ExampleProbs ==
    [c \in Cats |-> IF c = CATEGORIES[1] THEN Frac(1, 2)
                    ELSE IF c = CATEGORIES[2] THEN Frac(3, 10) ELSE Frac(1, 5)]

ProbMappings == [Cats -> {Frac(k, ProbDen) : k \in 0..ProbDen}] \cup {ExampleProbs}

InitEV ==
    /\ bet_amount \in BetValues
    /\ pool \in [Cats -> PoolValues]
    /\ probs \in ProbMappings
    /\ sel_cat \in Cats
    /\ ev = ZeroMap
    /\ payout = ZeroMap
    /\ evaluated = FALSE
    /\ history_df = <<>>
    /\ typed = 0
    /\ estimated = FALSE
    /\ NoAdmin

\* ev, payout = expected_value(bet_amount, pool, probs)
Project ==
    /\ ~evaluated
    /\ LET r == expected_value(bet_amount, pool, probs)
       IN  ev' = r.ev /\ payout' = r.payout
    /\ evaluated' = TRUE
    /\ UNCHANGED <<bet_amount, pool, probs, sel_cat, pageVars, fileVars>>

\* The same pool and probabilities evaluated again with another bet amount.
Rebet(b) ==
    /\ evaluated
    /\ b # bet_amount
    /\ bet_amount' = b
    /\ LET r == expected_value(b, pool, probs)
       IN  ev' = r.ev /\ payout' = r.payout
    /\ UNCHANGED <<pool, probs, sel_cat, evaluated, pageVars, fileVars>>

NextEV == Project \/ \E b \in BetValues : Rebet(b)

SpecEV == InitEV /\ [][NextEV]_vars

\* ------------------------------------------------ claims: expected_value
A == CATEGORIES[1]
B == CATEGORIES[2]
C == CATEGORIES[3]

PoolSum == pool[A] + pool[B] + pool[C]

ExamplePool == [c \in Cats |-> IF c = A THEN 100 ELSE IF c = B THEN 200 ELSE 0]

OthersEmpty(c) == \A k \in Cats \ {c} : pool[k] = 0

\* C1: expected_value returns an entry for every category, determined by the
\* inputs alone: payout[c] = ((sum of pool + bet) / (pool[c] + bet)) * bet when
\* pool[c] + bet > 0 and 0 otherwise, ev[c] = probs[c] * payout[c] - bet; the
\* worked example gives payout[C] = 310, ev[C] = 52 and payout[A] = 3100/110.
Thm_C1 ==
    evaluated =>
        /\ DOMAIN ev = Cats
        /\ DOMAIN payout = Cats
        /\ \A c \in Cats :
            /\ payout[c][2] > 0
            /\ ev[c][2] > 0
            /\ pool[c] + bet_amount > 0 =>
                   payout[c][1] * (pool[c] + bet_amount)
                       = (PoolSum + bet_amount) * bet_amount * payout[c][2]
            /\ ~(pool[c] + bet_amount > 0) => payout[c][1] = 0
            /\ ev[c][1] * probs[c][2] * payout[c][2]
                   = (probs[c][1] * payout[c][1]
                        - bet_amount * probs[c][2] * payout[c][2]) * ev[c][2]
        /\ (pool = ExamplePool /\ bet_amount = 10 /\ probs = ExampleProbs) =>
               /\ payout[C] = <<310, 1>>
               /\ ev[C] = <<52, 1>>
               /\ payout[A][1] * 110 = 3100 * payout[A][2]

Wit_C1 ==
    /\ evaluated
    /\ pool = ExamplePool /\ bet_amount = 10 /\ probs = ExampleProbs
    /\ sel_cat = B
    /\ payout[C] = <<310, 1>>

\* C5: with bet amount 0 every payout and every expected value is 0, also when
\* every pool is 0 (no division by zero: no entry is NaN).
Thm_C5 ==
    (evaluated /\ bet_amount = 0) =>
        \A c \in Cats : payout[c] = FromInt(0) /\ ev[c] = FromInt(0)

Wit_C5 ==
    /\ evaluated /\ bet_amount = 0
    /\ \A c \in Cats : pool[c] = 0
    /\ \E c \in Cats : probs[c][1] > 0
    /\ payout = ZeroMap /\ ev = ZeroMap

\* C7: for a bet amount >= 0 and pools >= 0 every payout is non-negative (an
\* expected value may be negative).
Thm_C7 ==
    (evaluated /\ bet_amount >= 0 /\ \A c \in Cats : pool[c] >= 0) =>
        \A c \in Cats : payout[c][2] > 0 /\ payout[c][1] >= 0

Wit_C7 ==
    /\ evaluated /\ bet_amount > 0
    /\ \E c \in Cats : ev[c][1] < 0 /\ payout[c][1] > 0

\* The probability of c equals its share of a pool with a positive total.
FairShare(c) ==
    /\ PoolSum > 0
    /\ pool[c] > 0
    /\ probs[c][1] * PoolSum = pool[c] * probs[c][2]

\* C8: for a category whose probability equals its pool share, |ev[c]| gets no
\* larger when the same pool is evaluated with a smaller bet amount, and ev[c]
\* is 0 at bet amount 0.
Thm_C8 ==
    /\ [](evaluated /\ bet_amount = 0 =>
            \A c \in Cats : FairShare(c) => ev[c] = FromInt(0))
    /\ [][(evaluated /\ evaluated' /\ pool' = pool /\ probs' = probs
             /\ bet_amount' <= bet_amount) =>
            \A c \in Cats : FairShare(c) => Leq(AbsF(ev'[c]), AbsF(ev[c]))]_vars

Wit_C8 ==
    /\ evaluated /\ bet_amount = 1
    /\ \E c \in Cats : FairShare(c) /\ ~OthersEmpty(c) /\ ev[c][1] < 0

\* C10: for a bet amount > 0 every payout is at least the bet amount, and it
\* equals the bet amount exactly when every other category's pool is 0.
Thm_C10 ==
    (evaluated /\ bet_amount > 0) =>
        \A c \in Cats :
            /\ Leq(FromInt(bet_amount), payout[c])
            /\ (payout[c] = FromInt(bet_amount)) <=> OthersEmpty(c)

Wit_C10 ==
    /\ evaluated /\ bet_amount > 0
    /\ \E c \in Cats : OthersEmpty(c) /\ pool[c] > 0 /\ payout[c] = FromInt(bet_amount)
    /\ \E c \in Cats : ~OthersEmpty(c) /\ ~Leq(payout[c], FromInt(bet_amount))

\* --------------------------------------- calc_probabilities on its own
\* The frames history.csv can hold: rows whose 結果 is any text.  The date-time
\* is not read by calc_probabilities; every row carries the same one.
HistoryFrames(maxLen) == UNION {[1..n -> {Row(1, r) : r \in Results}] : n \in 0..maxLen}

InitProb ==
    /\ history_df \in HistoryFrames(MaxRecords)
    /\ probs = ZeroMap
    /\ estimated = FALSE
    /\ bet_amount = 0
    /\ pool = [c \in Cats |-> 0]
    /\ sel_cat = CATEGORIES[1]
    /\ ev = ZeroMap
    /\ payout = ZeroMap
    /\ evaluated = FALSE
    /\ typed = 0
    /\ NoAdmin

\* probs = calc_probabilities(history_df)
Estimate ==
    /\ ~estimated
    /\ probs' = calc_probabilities(history_df)
    /\ estimated' = TRUE
    /\ UNCHANGED <<bet_amount, pool, sel_cat, ev, payout, evaluated, history_df,
                   typed, fileVars>>

NextProb == Estimate

SpecProb == InitProb /\ [][NextProb]_vars

\* ------------------------------------------------------- the main page

TypedValues == (-MaxInput)..MaxInput

\* load_history(): read_csv gives back the rows to_csv wrote.
load_history == file

\* st.number_input without min_value: whatever is typed is returned.
number_input_NoMin(min_value, current, raw) == raw

\* st.number_input(label, 0, step=1): min_value = 0 and the value starts at the
\* minimum; a number below min_value is not accepted and the widget keeps its value.
number_input(min_value, current, raw) == IF raw < min_value THEN current ELSE raw

\* One run of the script for a visitor of the main page (lines 131, 268, 290).
MainRun(newPool, newBet, newSel) ==
    /\ history_df' = load_history
    /\ probs' = calc_probabilities(history_df')
    /\ pool' = newPool
    /\ bet_amount' = newBet
    /\ sel_cat' = newSel
    /\ estimated' = TRUE
    /\ LET r == expected_value(newBet, newPool, probs')
       IN  ev' = r.ev /\ payout' = r.payout
    /\ evaluated' = TRUE

\* The first run of a session: every number widget at its minimum, the radio
\* button on the first category.
InitPage ==
    /\ file \in HistoryFrames(MaxHistory)
    /\ base = file
    /\ pc = [s \in Sessions |-> "idle"]
    /\ admin_df = [s \in Sessions |-> <<>>]
    /\ added = <<>>
    /\ stale = FALSE
    /\ typed = 0
    /\ history_df = load_history
    /\ probs = calc_probabilities(history_df)
    /\ estimated = TRUE
    /\ pool = [c \in Cats |-> 0]
    /\ bet_amount = 0
    /\ sel_cat = CATEGORIES[1]
    /\ ev = expected_value(bet_amount, pool, probs).ev
    /\ payout = expected_value(bet_amount, pool, probs).payout
    /\ evaluated = TRUE

\* The visitor types a number into the pool widget of category c; the script reruns.
SetPool(c, raw) ==
    /\ typed' = raw
    /\ MainRun([pool EXCEPT ![c] = number_input(0, pool[c], raw)], bet_amount, sel_cat)
    /\ UNCHANGED fileVars

\* The visitor types a number into "Bet 金額"; the script reruns.
SetBet(raw) ==
    /\ typed' = raw
    /\ MainRun(pool, number_input(0, bet_amount, raw), sel_cat)
    /\ UNCHANGED fileVars

\* The visitor picks a category in the radio button; the script reruns.
SelectCat(c) ==
    /\ c # sel_cat
    /\ MainRun(pool, bet_amount, c)
    /\ UNCHANGED <<typed, fileVars>>

NextPage ==
    \/ \E c \in Cats, raw \in TypedValues : SetPool(c, raw)
    \/ \E raw \in TypedValues : SetBet(raw)
    \/ \E c \in Cats : SelectCat(c)

SpecPage == InitPage /\ [][NextPage]_vars

\* ------------------------------ claims: calc_probabilities and the page
\* C2: for every non-empty history the values of calc_probabilities sum to 1.
Cex_C2 ==
    (estimated /\ history_df # <<>>) => SumFracs(probs, Len(CATEGORIES)) = FromInt(1)

\* C3: for every non-empty history the result's keys are the configured
\* categories and each value is the number of records with that result divided
\* by the number of records in the input.
Cex_C3 ==
    (estimated /\ history_df # <<>>) =>
        /\ DOMAIN probs = Cats
        /\ \A c \in Cats :
            /\ probs[c][2] > 0
            /\ probs[c][1] * Len(history_df) = CountResult(history_df, c) * probs[c][2]

\* C4: on an empty history every configured category maps to exactly 1/n, n the
\* number of configured categories, and nothing is divided by zero.
Thm_C4 ==
    (estimated /\ history_df = <<>>) =>
        /\ DOMAIN probs = Cats
        /\ \A c \in Cats : probs[c][2] > 0 /\ probs[c][1] * Len(CATEGORIES) = probs[c][2]

Wit_C4 ==
    /\ estimated
    /\ history_df = <<>>
    /\ probs[A] = <<1, 3>> /\ probs[B] = <<1, 3>> /\ probs[C] = <<1, 3>>

\* C6: every call of expected_value made by the page has bet_amount >= 0 and
\* pool[c] >= 0 for every category: a negative number typed is not passed on.
Thm_C6 ==
    evaluated => bet_amount >= 0 /\ \A c \in Cats : pool[c] >= 0

Wit_C6 ==
    /\ evaluated
    /\ typed < 0
    /\ bet_amount > 0
    /\ \E c \in Cats : pool[c] > 0

\* ------------------------------------------------------ the admin page
\* What the admin can enter: a date and time, and a result from the selectbox.
AdminTimes == 1..MaxTime

\* save_history(pd.DataFrame([new])): the loaded frame is left out.
concat_NewOnly(df, new) == <<new>>

\* pd.concat([history_df, pd.DataFrame([new])], ignore_index=True)
concat(df, new) == Append(df, new)

\* save_history(df): to_csv replaces the whole file.
save_history(df) == file' = df

InitAdmin ==
    /\ file \in {<<>>} \cup {<<Row(1, r)>> : r \in Cats}
    /\ base = file
    /\ pc = [s \in Sessions |-> "idle"]
    /\ admin_df = [s \in Sessions |-> <<>>]
    /\ added = <<>>
    /\ stale = FALSE
    /\ typed = 0
    /\ history_df = <<>>
    /\ probs = ZeroMap
    /\ estimated = FALSE
    /\ pool = [c \in Cats |-> 0]
    /\ bet_amount = 0
    /\ sel_cat = CATEGORIES[1]
    /\ ev = ZeroMap
    /\ payout = ZeroMap
    /\ evaluated = FALSE

\* A run of the script starts in session s: history_df = load_history().
LoadHistory(s) ==
    /\ pc[s] = "idle"
    /\ admin_df' = [admin_df EXCEPT ![s] = load_history]
    /\ pc' = [pc EXCEPT ![s] = "loaded"]
    /\ UNCHANGED <<file, base, added, stale, evVars, pageVars>>

\* The 追加 button of session s: append the new row to the frame this run loaded,
\* save it, and ask for a rerun.
AddHist(s, t, r) ==
    /\ pc[s] = "loaded"
    /\ Len(added) < MaxAdds
    /\ LET new == Row(t, r)
           df  == concat(admin_df[s], new)
       IN  /\ admin_df' = [admin_df EXCEPT ![s] = df]
           /\ save_history(df)
           /\ added' = Append(added, new)
    /\ stale' = (stale \/ admin_df[s] # file)
    /\ pc' = [pc EXCEPT ![s] = "idle"]
    /\ UNCHANGED <<base, evVars, pageVars>>

\* The run of session s ends without the button having been pressed.
EndRun(s) ==
    /\ pc[s] = "loaded"
    /\ pc' = [pc EXCEPT ![s] = "idle"]
    /\ UNCHANGED <<file, admin_df, base, added, stale, evVars, pageVars>>

NextAdmin ==
    \/ \E s \in Sessions : LoadHistory(s)
    \/ \E s \in Sessions, t \in AdminTimes, r \in Cats : AddHist(s, t, r)
    \/ \E s \in Sessions : EndRun(s)

SpecAdmin == InitAdmin /\ [][NextAdmin]_vars

\* ------------------------------------------------- claims: the admin page
RECURSIVE CountRow(_, _)
CountRow(df, row) ==
    IF df = <<>> THEN 0
    ELSE (IF Head(df) = row THEN 1 ELSE 0) + CountRow(Tail(df), row)

AllRows == {Row(t, r) : t \in AdminTimes \cup {1}, r \in Cats}

====
